---- MODULE Spec2Model ----
(***************************************************************************)
(* A model of the in-memory sliding-window rate limiter of the template:   *)
(*   convex/lib/constants/rateLimits  (RATE_LIMITS, ROLE_MULTIPLIERS,      *)
(*                                     getRateLimitConfig)                 *)
(*   convex/lib/services/rateLimitService.ts (RateLimitService,            *)
(*                                            MockRateLimitService)        *)
(*   convex/lib/middleware/withRateLimit.ts  (withRateLimit, compose)      *)
(*   convex/lib/authHelpers.ts               (requireAuth, requireAdmin,   *)
(*                                            isAdmin, handleServerError,  *)
(*                                            the custom function wrappers)*)
(*   convex/messages.ts                      (send, remove, deleteAny)     *)
(* Time is in milliseconds, as Date.now() gives it.                        *)
(***************************************************************************)
EXTENDS Integers, Sequences, FiniteSets, TLC

VARIABLES
  now,               \* Date.now(): the process's clock, in ms
  rateLimitTracker,  \* the module-level Map<string, number[]>
  accepted,          \* history: per tracker key, the times of the calls accepted
                     \* since the key's last reset that are younger than the window
  lastCall,          \* history: what the last operation was and how it ended
  mark,              \* history: per tracker key, its last rejection
  nCalls,            \* number of operations issued so far (bounds the exploration)
  nTicks,            \* number of clock advances so far (bounds the exploration)
  scenario,          \* the inputs a burst or a replay holds fixed (<<>> otherwise)
  inv,               \* the invocations of wrapped handlers in flight, by slot
  nInv,              \* number of invocations started so far (bounds the exploration)
  messages           \* the documents of the 'messages' table, in insertion order

vars == <<now, rateLimitTracker, accepted, lastCall, mark, nCalls, nTicks, scenario, inv, nInv,
          messages>>

(***************************************************************************)
(* Configuration tables                                                    *)
(***************************************************************************)
SECOND == 1000
MINUTE == 60 * 1000
HOUR == 60 * 60 * 1000
DAY == 24 * 60 * 60 * 1000

RATE_LIMITS ==
  [ SEND_MESSAGE  |-> [tokens |-> 1, maxTokens |-> 10, period |-> MINUTE],
    UPLOAD_FILE   |-> [tokens |-> 1, maxTokens |-> 5,  period |-> MINUTE],
    DELETE_FILE   |-> [tokens |-> 1, maxTokens |-> 20, period |-> MINUTE],
    API_CALL      |-> [tokens |-> 1, maxTokens |-> 60, period |-> MINUTE],
    LOGIN_ATTEMPT |-> [tokens |-> 1, maxTokens |-> 5,  period |-> MINUTE],
    REGISTER_USER |-> [tokens |-> 1, maxTokens |-> 3,  period |-> HOUR],
    SEND_EMAIL    |-> [tokens |-> 1, maxTokens |-> 10, period |-> HOUR] ]

ROLE_MULTIPLIERS == [user |-> 1, premium |-> 5, admin |-> 100]

\* The retention horizon of cleanup(): "ts > now - 300000".
CleanupHorizon == 300000

(***************************************************************************)
(* JavaScript numbers: an integer, or NaN (a number times undefined).      *)
(***************************************************************************)
JsNum(n) == [isNaN |-> FALSE, v |-> n]
JsNaN == [isNaN |-> TRUE, v |-> 0]

JsGE_Strict(a, b) == (~b.isNaN) /\ a > b.v

\* a >= b for an integer a and a JavaScript number b: false when b is NaN.
JsGE(a, b) == (~b.isNaN) /\ a >= b.v

Ceil_Floor(n, d) == n \div d

\* Math.ceil(n / d) for d > 0 (\div rounds down).
Ceil(n, d) == -((-n) \div d)

(***************************************************************************)
(* getRateLimitConfig(limitName, role = 'user')                            *)
(***************************************************************************)
Undefined == "undefined"

\* A default parameter value: used when the argument is omitted.
DefaultTo(arg, dflt) == IF arg = Undefined THEN dflt ELSE arg

Multiply_Sum(base, role) ==
  IF role \in DOMAIN ROLE_MULTIPLIERS
    THEN [isNaN |-> FALSE, v |-> base + ROLE_MULTIPLIERS[role]]
    ELSE [isNaN |-> TRUE, v |-> 0]

\* ROLE_MULTIPLIERS[role]: undefined for a role that is no key of the table, and
\* a number times undefined is NaN.
Multiply(base, role) ==
  IF role \in DOMAIN ROLE_MULTIPLIERS
    THEN JsNum(base * ROLE_MULTIPLIERS[role])
    ELSE JsNaN

\* RATE_LIMITS[limitName] is undefined for an unknown name, and reading
\* baseLimit.maxTokens of undefined throws a TypeError.
getRateLimitConfig_DefaultLimit(limitName, roleArg) ==
  LET role == DefaultTo(roleArg, "user")
      name == IF limitName \in DOMAIN RATE_LIMITS THEN limitName ELSE "API_CALL"
  IN [threw |-> "none",
      tokens |-> RATE_LIMITS[name].tokens,
      period |-> RATE_LIMITS[name].period,
      maxTokens |-> Multiply(RATE_LIMITS[name].maxTokens, role)]

getRateLimitConfig(limitName, roleArg) ==
  LET role == DefaultTo(roleArg, "user") IN
  IF limitName \notin DOMAIN RATE_LIMITS
    THEN [threw |-> "TypeError"]
    ELSE [threw |-> "none",
          tokens |-> RATE_LIMITS[limitName].tokens,
          period |-> RATE_LIMITS[limitName].period,
          maxTokens |-> Multiply(RATE_LIMITS[limitName].maxTokens, role)]

(***************************************************************************)
(* The tracker map                                                         *)
(***************************************************************************)
\* `${operation}:${key}`: operation names hold no colon, so the string
\* determines the pair.
TrackerKey(operation, key) == <<operation, key>>

MapGet(map, k) == IF k \in DOMAIN map THEN map[k] ELSE <<>>
MapSet(map, k, v) == [x \in (DOMAIN map) \cup {k} |-> IF x = k THEN v ELSE map[x]]
MapDelete(map, k) == [x \in (DOMAIN map) \ {k} |-> map[x]]
EmptyMap == [x \in {} |-> <<>>]

Newer_Inclusive(ts, bound) == ts >= bound
Newer(ts, bound) == ts > bound
FilterNewer_NoPrune(timestamps, bound) == timestamps

FilterNewer(timestamps, bound) == SelectSeq(timestamps, LAMBDA ts : Newer(ts, bound))

(***************************************************************************)
(* RateLimitService                                                        *)
(***************************************************************************)
cleanup_Never(map, t) == map

\* cleanup(): every entry is filtered to the timestamps of the last 5 minutes
\* and deleted when nothing is left.
cleanup(map, t) ==
  LET kept == {k \in DOMAIN map : FilterNewer(map[k], t - CleanupHorizon) # <<>>}
  IN [k \in kept |-> FilterNewer(map[k], t - CleanupHorizon)]

checkLimit_PersistsOnReject(map, t, operation, key, roleArg, sweep) ==
  LET config == getRateLimitConfig(operation, DefaultTo(roleArg, "user"))
      trackerKey == TrackerKey(operation, key)
  IN IF config.threw # "none"
       THEN [threw |-> config.threw, resetIn |-> 0, count |-> 0, oldest |-> 0, map |-> map]
       ELSE
         LET recentTimestamps == FilterNewer(MapGet(map, trackerKey), t - config.period)
         IN IF JsGE(Len(recentTimestamps), config.maxTokens)
              THEN [threw |-> "RateLimitExceeded",
                    resetIn |-> Ceil(recentTimestamps[1] + config.period - t, 1000),
                    count |-> Len(recentTimestamps),
                    oldest |-> recentTimestamps[1],
                    map |-> MapSet(map, trackerKey, recentTimestamps)]
              ELSE
                LET stored == MapSet(map, trackerKey, Append(recentTimestamps, t))
                IN [threw |-> "none", resetIn |-> 0,
                    count |-> Len(recentTimestamps), oldest |-> 0,
                    map |-> IF sweep THEN cleanup(stored, t) ELSE stored]

\* checkLimit(operation, key, role = 'user') at time t on tracker map; sweep is
\* the outcome of Math.random() < 0.01.  The result is the error thrown (or
\* "none") and the map the call leaves.
checkLimit(map, t, operation, key, roleArg, sweep) ==
  LET config == getRateLimitConfig(operation, DefaultTo(roleArg, "user"))
      trackerKey == TrackerKey(operation, key)
  IN IF config.threw # "none"
       THEN [threw |-> config.threw, resetIn |-> 0, count |-> 0, oldest |-> 0, map |-> map]
       ELSE
         LET windowStart == t - config.period
             timestamps == MapGet(map, trackerKey)
             recentTimestamps == FilterNewer(timestamps, windowStart)
         IN IF JsGE(Len(recentTimestamps), config.maxTokens)
              THEN [threw |-> "RateLimitExceeded",
                    resetIn |-> Ceil(recentTimestamps[1] + config.period - t, 1000),
                    count |-> Len(recentTimestamps),
                    oldest |-> recentTimestamps[1],
                    map |-> map]
              ELSE
                LET stored == MapSet(map, trackerKey, Append(recentTimestamps, t))
                IN [threw |-> "none", resetIn |-> 0,
                    count |-> Len(recentTimestamps), oldest |-> 0,
                    map |-> IF sweep THEN cleanup(stored, t) ELSE stored]

reset_Noop(map, operation, key) == map
reset_WholeOperation(map, operation, key) ==
  [x \in {y \in DOMAIN map : y[1] # operation} |-> map[x]]

\* reset(operation, key)
reset(map, operation, key) == MapDelete(map, TrackerKey(operation, key))

(***************************************************************************)
(* Exploration bounds and the inputs drawn                                 *)
(***************************************************************************)
MaxCalls == 6
MaxTicks == 3

\* "NO_SUCH_LIMIT" is a name that is no key of RATE_LIMITS.
TestOps == {"REGISTER_USER", "NO_SUCH_LIMIT"}
TestKeys == {"u1"}
\* 'guest' is what messages.send passes for anonymous callers.
TestRoles == {"user", "admin", "guest"}
TickDeltas == {1, 300000, 3599999}

NoCall ==
  [kind |-> "none", op |-> "", key |-> "", role |-> "", time |-> 0, threw |-> "none",
   count |-> 0, resetIn |-> 0, afterReset |-> FALSE,
   priorMark |-> <<>>, held |-> 0]

(***************************************************************************)
(* History kept beside the program's state                                 *)
(***************************************************************************)
\* The accepted calls of tracker key k that a window ending at t still holds.
AcceptedAfter(hist, k, op, res, t) ==
  IF res.threw = "none"
    THEN MapSet(hist, k, Append(FilterNewer(MapGet(hist, k), t - RATE_LIMITS[op].period), t))
    ELSE hist

\* The last rejection of a key is remembered, with whether a call of that key
\* was accepted since.
MarkAfter(marks, k, role, res, t) ==
  IF res.threw = "RateLimitExceeded"
    THEN MapSet(marks, k, <<[oldest |-> res.oldest, role |-> role, count |-> res.count,
                             time |-> t, acceptedSince |-> FALSE,
                             resetIn |-> res.resetIn, resetSince |-> FALSE]>>)
    ELSE IF res.threw = "none" /\ k \in DOMAIN marks
      THEN MapSet(marks, k, <<[marks[k][1] EXCEPT !.acceptedSince = TRUE]>>)
      ELSE marks

(***************************************************************************)
(* Operations of one process                                               *)
(***************************************************************************)
Init ==
  /\ now = 0
  /\ rateLimitTracker = EmptyMap
  /\ accepted = EmptyMap
  /\ lastCall = NoCall
  /\ mark = EmptyMap
  /\ nCalls = 0
  /\ nTicks = 0
  /\ scenario = <<>>
  /\ inv = <<>>
  /\ nInv = 0
  /\ messages = <<>>

\* await rateLimitService.checkLimit(operation, key, role)
CheckLimitStep(operation, key, role, sweep) ==
  LET res == checkLimit(rateLimitTracker, now, operation, key, role, sweep)
      k == TrackerKey(operation, key)
  IN /\ rateLimitTracker' = res.map
     /\ accepted' = AcceptedAfter(accepted, k, operation, res, now)
     /\ mark' = MarkAfter(mark, k, role, res, now)
     /\ lastCall' = [kind |-> "checkLimit", op |-> operation, key |-> key, role |-> role,
                     time |-> now, threw |-> res.threw, count |-> res.count,
                     resetIn |-> res.resetIn,
                     afterReset |-> /\ lastCall.kind = "reset"
                                    /\ lastCall.op = operation
                                    /\ lastCall.key = key,
                     priorMark |-> MapGet(mark, k),
                     held |-> Len(MapGet(rateLimitTracker, k))]
     /\ nCalls' = nCalls + 1
     /\ UNCHANGED <<now, nTicks>>

CheckLimit(operation, key, role, sweep) ==
  /\ nCalls < MaxCalls
  /\ CheckLimitStep(operation, key, role, sweep)
  /\ UNCHANGED <<scenario, inv, nInv, messages>>

\* await rateLimitService.reset(operation, key)
Reset(operation, key) ==
  /\ nCalls < MaxCalls
  /\ rateLimitTracker' = reset(rateLimitTracker, operation, key)
  /\ accepted' = MapDelete(accepted, TrackerKey(operation, key))
  /\ lastCall' = [NoCall EXCEPT !.kind = "reset", !.op = operation, !.key = key,
                                !.time = now,
                                !.held = Len(MapGet(rateLimitTracker,
                                                    TrackerKey(operation, key)))]
  /\ mark' = IF TrackerKey(operation, key) \in DOMAIN mark
               THEN MapSet(mark, TrackerKey(operation, key),
                           <<[mark[TrackerKey(operation, key)][1] EXCEPT !.resetSince = TRUE]>>)
               ELSE mark
  /\ nCalls' = nCalls + 1
  /\ UNCHANGED <<now, nTicks, scenario, inv, nInv, messages>>

\* Time passes between two operations.
Tick(d) ==
  /\ nTicks < MaxTicks
  /\ now' = now + d
  /\ nTicks' = nTicks + 1
  /\ lastCall' = [NoCall EXCEPT !.kind = "tick", !.time = now + d]
  /\ UNCHANGED <<rateLimitTracker, accepted, mark, nCalls, scenario, inv, nInv, messages>>

DoCheckLimit ==
  \E operation \in TestOps, key \in TestKeys, role \in TestRoles, sweep \in BOOLEAN :
    CheckLimit(operation, key, role, sweep)

DoReset == \E operation \in TestOps \cap DOMAIN RATE_LIMITS, key \in TestKeys : Reset(operation, key)

DoTick == \E d \in TickDeltas : Tick(d)

Next == DoCheckLimit \/ DoReset \/ DoTick

Spec == Init /\ [][Next]_vars

(***************************************************************************)
(* A burst: calls for one (operation, key, role) in immediate succession,  *)
(* starting from an empty tracker                                          *)
(***************************************************************************)
\* calls issued beyond the role's limit
MaxOver == 2

\* every limit but API_CALL, whose admin burst is 6000 calls long
BurstOps == DOMAIN RATE_LIMITS \ {"API_CALL"}
BurstRoles == DOMAIN ROLE_MULTIPLIERS
BurstKey == "user-123"

BurstInit ==
  /\ now = 0
  /\ rateLimitTracker = EmptyMap
  /\ accepted = EmptyMap
  /\ lastCall = NoCall
  /\ mark = EmptyMap
  /\ nCalls = 0
  /\ nTicks = 0
  /\ scenario \in [op : BurstOps, role : BurstRoles]
  /\ inv = <<>>
  /\ nInv = 0
  /\ messages = <<>>

BurstCall ==
  /\ nCalls < RATE_LIMITS[scenario.op].maxTokens * ROLE_MULTIPLIERS[scenario.role] + MaxOver
  /\ \E sweep \in BOOLEAN : CheckLimitStep(scenario.op, BurstKey, scenario.role, sweep)
  /\ UNCHANGED <<scenario, inv, nInv, messages>>

BurstNext == BurstCall

SpecBurst == BurstInit /\ [][BurstNext]_vars

(***************************************************************************)
(* authHelpers: requireAuth, isAdmin                                       *)
(***************************************************************************)
\* convex/lib/config.ts, as the module comment of authHelpers documents it
ADMIN_EMAILS == {"admin@example.com"}

\* AuthUser records; org is the field the documented custom getKey reads.
Alice == [_id |-> "alice", name |-> "Alice", email |-> "alice@example.com",
          role |-> "user", org |-> "acme"]
Root == [_id |-> "root", name |-> "Root", email |-> "admin@example.com",
         role |-> Undefined, org |-> Undefined]
NoUser == [_id |-> "", name |-> "", email |-> "", role |-> Undefined, org |-> Undefined]

\* What authComponent.getAuthUser(ctx) does for the caller behind ctx: it
\* resolves to the user, resolves to null, or rejects.
Callers ==
  { [lookup |-> "user", user |-> Alice],
    [lookup |-> "user", user |-> Root],
    [lookup |-> "null", user |-> NoUser],
    [lookup |-> "throws", user |-> NoUser] }

NoError == [kind |-> "none", op |-> "", resetIn |-> 0]
\* the rejection of authComponent.getAuthUser
LookupError == [kind |-> "AuthLookupFailed", op |-> "", resetIn |-> 0]
\* new Error('Authentication required')
AuthenticationRequired == [kind |-> "AuthenticationRequired", op |-> "", resetIn |-> 0]
\* new Error(`Rate limit exceeded for ${operation}. Try again in ${resetIn} seconds.`)
RateLimitError(operation, resetIn) ==
  [kind |-> "RateLimitExceeded", op |-> operation, resetIn |-> resetIn]
\* the TypeError of getRateLimitConfig
ConfigTypeError == [kind |-> "TypeError", op |-> "", resetIn |-> 0]
\* the error the wrapped handler itself throws
HandlerError == [kind |-> "HandlerFailed", op |-> "", resetIn |-> 0]

\* The error object a checkLimit result stands for.
ThrownBy(res, operation) ==
  CASE res.threw = "RateLimitExceeded" -> RateLimitError(operation, res.resetIn)
    [] res.threw = "TypeError" -> ConfigTypeError
    [] OTHER -> NoError

requireAuth_FailOpen(caller) ==
  IF caller.lookup = "throws"
    THEN [threw |-> LookupError, user |-> NoUser]
    ELSE [threw |-> NoError, user |-> caller.user]

\* requireAuth(ctx): the lookup's rejection propagates; null throws
\* 'Authentication required'.
requireAuth(caller) ==
  CASE caller.lookup = "throws" -> [threw |-> LookupError, user |-> NoUser]
    [] caller.lookup = "null" -> [threw |-> AuthenticationRequired, user |-> NoUser]
    [] OTHER -> [threw |-> NoError, user |-> caller.user]

\* isAdmin(user)
isAdmin(user) ==
  IF user.email # "" /\ user.email \in ADMIN_EMAILS
    THEN TRUE
    ELSE user.role = "admin"

(***************************************************************************)
(* withRateLimit(handler, operation, options)                              *)
(***************************************************************************)
\* options?.getKey?.(ctx, args, user) ?? user._id, with the documented custom
\* key function (user) => user.organizationId
KeyOf(options, user) ==
  IF options.getKey /\ user.org # Undefined THEN user.org ELSE user._id

\* options?.getRole?.(user) ?? (isAdmin(user) ? 'admin' : 'user'), with the
\* documented custom role function (user) => user.isPremium ? 'premium' : 'user'
RoleOf(options, user) ==
  IF options.getRole
    THEN (IF user.role = "premium" THEN "premium" ELSE "user")
    ELSE (IF isAdmin(user) THEN "admin" ELSE "user")

AfterCheck_Swallow(thrown) == [pc |-> "handler", error |-> NoError]

AfterCheck_Rewrap(thrown) ==
  IF thrown.kind = "none"
    THEN [pc |-> "handler", error |-> NoError]
    ELSE [pc |-> "done", error |-> RateLimitError(thrown.op, thrown.resetIn)]

\* await rateLimitService.checkLimit(...): what it throws leaves the wrapper
\* as it is; otherwise the handler is called next.
AfterCheck(thrown) ==
  IF thrown.kind = "none"
    THEN [pc |-> "handler", error |-> NoError]
    ELSE [pc |-> "done", error |-> thrown]

\* the wrapped mutations of the process
MaxInvocations == 5
Slots == {1, 2}
ArgValues == {"hello", "bye"}
Wrappers ==
  { [operation |-> "REGISTER_USER", getKey |-> FALSE, getRole |-> FALSE],
    [operation |-> "REGISTER_USER", getKey |-> FALSE, getRole |-> TRUE],
    [operation |-> "NO_SUCH_LIMIT", getKey |-> TRUE, getRole |-> FALSE] }

IdleInvocation ==
  [pc |-> "idle", caller |-> [lookup |-> "null", user |-> NoUser], args |-> "",
   wrapper |-> [operation |-> "", getKey |-> FALSE, getRole |-> FALSE],
   user |-> NoUser, checked |-> "no", checkThrew |-> NoError, stored |-> FALSE,
   handlerRuns |-> 0, handlerArgs |-> "", handlerUser |-> NoUser, error |-> NoError]

WrapInit ==
  /\ now = 0
  /\ rateLimitTracker = EmptyMap
  /\ accepted = EmptyMap
  /\ lastCall = NoCall
  /\ mark = EmptyMap
  /\ nCalls = 0
  /\ nTicks = 0
  /\ scenario = <<>>
  /\ inv = [s \in Slots |-> IdleInvocation]
  /\ nInv = 0
  /\ messages = <<>>

\* The mutation is invoked: the wrapper runs up to `await requireAuth(ctx)`.
Invoke(s, caller, args, wrapper) ==
  /\ inv[s].pc \in {"idle", "done"}
  /\ nInv < MaxInvocations
  /\ inv' = [inv EXCEPT ![s] = [IdleInvocation EXCEPT !.pc = "auth", !.caller = caller,
                                                      !.args = args, !.wrapper = wrapper]]
  /\ nInv' = nInv + 1
  /\ UNCHANGED <<now, rateLimitTracker, accepted, lastCall, mark, nCalls, nTicks, scenario, messages>>

\* The lookup settles without a user: the wrapper throws, nothing else runs.
AuthFails(s) ==
  LET auth == requireAuth(inv[s].caller) IN
  /\ inv[s].pc = "auth"
  /\ auth.threw # NoError
  /\ inv' = [inv EXCEPT ![s].pc = "done", ![s].error = auth.threw]
  /\ UNCHANGED <<now, rateLimitTracker, accepted, lastCall, mark, nCalls, nTicks, scenario, nInv, messages>>

\* The lookup settles with a user: key and role are derived and checkLimit runs
\* (it holds no await, so it runs to its end in this step).
AuthThenCheck(s, sweep) ==
  LET auth == requireAuth(inv[s].caller)
      key == KeyOf(inv[s].wrapper, auth.user)
      role == RoleOf(inv[s].wrapper, auth.user)
      operation == inv[s].wrapper.operation
      res == checkLimit(rateLimitTracker, now, operation, key, role, sweep)
      thrown == ThrownBy(res, operation)
      after == AfterCheck(thrown)
  IN /\ inv[s].pc = "auth"
     /\ auth.threw = NoError
     /\ CheckLimitStep(operation, key, role, sweep)
     /\ inv' = [inv EXCEPT ![s].pc = after.pc, ![s].error = after.error,
                           ![s].user = auth.user,
                           ![s].checked = IF res.threw = "none" THEN "accepted" ELSE "rejected",
                           ![s].checkThrew = thrown,
                           ![s].stored = (res.threw = "none")]
     /\ UNCHANGED <<scenario, nInv, messages>>

RunHandler_Refund(s, fails) ==
  /\ inv[s].pc = "handler"
  /\ inv' = [inv EXCEPT ![s].pc = "done",
                        ![s].handlerRuns = @ + 1,
                        ![s].handlerArgs = inv[s].args,
                        ![s].handlerUser = inv[s].user,
                        ![s].error = IF fails THEN HandlerError ELSE NoError]
  /\ rateLimitTracker' =
       LET k == TrackerKey(inv[s].wrapper.operation, KeyOf(inv[s].wrapper, inv[s].user))
       IN IF fails /\ k \in DOMAIN rateLimitTracker
            THEN MapSet(rateLimitTracker, k,
                        SubSeq(rateLimitTracker[k], 1, Len(rateLimitTracker[k]) - 1))
            ELSE rateLimitTracker
  /\ UNCHANGED <<now, accepted, lastCall, mark, nCalls, nTicks, scenario, nInv, messages>>

\* return await handler(ctx, args, user): the handler returns or throws.
RunHandler(s, fails) ==
  /\ inv[s].pc = "handler"
  /\ inv' = [inv EXCEPT ![s].pc = "done",
                        ![s].handlerRuns = @ + 1,
                        ![s].handlerArgs = inv[s].args,
                        ![s].handlerUser = inv[s].user,
                        ![s].error = IF fails THEN HandlerError ELSE NoError]
  /\ UNCHANGED <<now, rateLimitTracker, accepted, lastCall, mark, nCalls, nTicks, scenario, nInv, messages>>

DoInvoke ==
  \E s \in Slots, caller \in Callers, args \in ArgValues, wrapper \in Wrappers :
    Invoke(s, caller, args, wrapper)
DoAuthFails == \E s \in Slots : AuthFails(s)
DoAuthThenCheck == \E s \in Slots, sweep \in BOOLEAN : AuthThenCheck(s, sweep)
DoRunHandler == \E s \in Slots, fails \in BOOLEAN : RunHandler(s, fails)

WrapNext == DoInvoke \/ DoAuthFails \/ DoAuthThenCheck \/ DoRunHandler

SpecWrap == WrapInit /\ [][WrapNext]_vars

(***************************************************************************)
(* withRateLimit without options, called by users of each kind              *)
(***************************************************************************)
\* a user whose role field is 'premium'
Pat == [_id |-> "pat", name |-> "Pat", email |-> "pat@example.com",
        role |-> "premium", org |-> Undefined]

RoleCallers ==
  { [lookup |-> "user", user |-> Alice],
    [lookup |-> "user", user |-> Root],
    [lookup |-> "user", user |-> Pat] }

\* withRateLimit(handler, 'REGISTER_USER')
PlainWrapper == [operation |-> "REGISTER_USER", getKey |-> FALSE, getRole |-> FALSE]

DoInvokePlain == \E s \in Slots, caller \in RoleCallers : Invoke(s, caller, "hello", PlainWrapper)

RoleNext == DoInvokePlain \/ DoAuthThenCheck \/ DoRunHandler

SpecRole == WrapInit /\ [][RoleNext]_vars

(***************************************************************************)
(* A replay: one sequence of calls for one (operation, key), run from one  *)
(* tracker state under two roles.  rateLimitTracker is the map of the run   *)
(* under the smaller multiplier, scenario.trackerHi the map of the run      *)
(* under the larger; both runs see the same clock and the same random draw. *)
(***************************************************************************)
MaxPrefix == 2
MaxReplayCalls == 20
MaxReplayTicks == 2

ReplayOps == {"REGISTER_USER", "UPLOAD_FILE"}
RolePairs == {<<"user", "premium">>, <<"user", "admin">>}
PrefixRoles == {"user", "admin"}
ReplayDeltas == {300000, 3300000}
ReplayKey == "u1"

ReplayInit ==
  /\ now = 0
  /\ rateLimitTracker = EmptyMap
  /\ accepted = EmptyMap
  /\ lastCall = NoCall
  /\ mark = EmptyMap
  /\ nCalls = 0
  /\ nTicks = 0
  /\ \E operation \in ReplayOps, pair \in RolePairs :
       scenario = [op |-> operation, lo |-> pair[1], hi |-> pair[2], phase |-> "prefix",
                   trackerHi |-> EmptyMap, admittedLo |-> 0, admittedHi |-> 0,
                   rejectedLo |-> FALSE, lastLo |-> "none", lastHi |-> "none"]
  /\ inv = <<>>
  /\ nInv = 0
  /\ messages = <<>>

\* A call before the replay starts: it builds the tracker state both runs start from.
PrefixCall(role, sweep) ==
  LET res == checkLimit(rateLimitTracker, now, scenario.op, ReplayKey, role, sweep) IN
  /\ scenario.phase = "prefix"
  /\ nCalls < MaxPrefix
  /\ rateLimitTracker' = res.map
  /\ scenario' = [scenario EXCEPT !.trackerHi = res.map]
  /\ nCalls' = nCalls + 1
  /\ UNCHANGED <<now, accepted, lastCall, mark, nTicks, inv, nInv, messages>>

StartReplay ==
  /\ scenario.phase = "prefix"
  /\ scenario' = [scenario EXCEPT !.phase = "replay"]
  /\ nCalls' = 0
  /\ UNCHANGED <<now, rateLimitTracker, accepted, lastCall, mark, nTicks, inv, nInv, messages>>

\* The same call in both runs.
ReplayCall(sweep) ==
  LET resLo == checkLimit(rateLimitTracker, now, scenario.op, ReplayKey, scenario.lo, sweep)
      resHi == checkLimit(scenario.trackerHi, now, scenario.op, ReplayKey, scenario.hi, sweep)
  IN /\ scenario.phase = "replay"
     /\ nCalls < MaxReplayCalls
     /\ rateLimitTracker' = resLo.map
     /\ scenario' = [scenario EXCEPT
                       !.trackerHi = resHi.map,
                       !.admittedLo = @ + (IF resLo.threw = "none" THEN 1 ELSE 0),
                       !.admittedHi = @ + (IF resHi.threw = "none" THEN 1 ELSE 0),
                       !.rejectedLo = @ \/ resLo.threw # "none",
                       !.lastLo = resLo.threw,
                       !.lastHi = resHi.threw]
     /\ nCalls' = nCalls + 1
     /\ UNCHANGED <<now, accepted, lastCall, mark, nTicks, inv, nInv, messages>>

ReplayTick(d) ==
  /\ nTicks < MaxReplayTicks
  /\ now' = now + d
  /\ nTicks' = nTicks + 1
  /\ UNCHANGED <<rateLimitTracker, accepted, lastCall, mark, nCalls, scenario, inv, nInv, messages>>

DoPrefixCall == \E role \in PrefixRoles, sweep \in BOOLEAN : PrefixCall(role, sweep)
DoReplayCall == \E sweep \in BOOLEAN : ReplayCall(sweep)
DoReplayTick == \E d \in ReplayDeltas : ReplayTick(d)

ReplayNext == DoPrefixCall \/ StartReplay \/ DoReplayCall \/ DoReplayTick

SpecReplay == ReplayInit /\ [][ReplayNext]_vars

(***************************************************************************)
(* The tracker over unbounded time.  checkLimit and cleanup compare a       *)
(* timestamp with the clock only through now - ts, so the clock is kept     *)
(* relative: now stays at LiveSpan and the passing of d ms moves every      *)
(* stored timestamp d ms back.  A timestamp LiveSpan or more old is kept at *)
(* 0: LiveSpan covers the cleanup horizon and the window of LiveOp, so no   *)
(* comparison tells it from an older one.  No counter bounds the run.       *)
(***************************************************************************)
LiveSpan == CleanupHorizon
LiveOp == "UPLOAD_FILE"
IdleKey == "gone"
LiveKeys == {IdleKey, "u1"}
LiveDeltas == {30000, 150000}

Earlier(ts, d) == IF ts > d THEN ts - d ELSE 0
Shift(map, d) == [k \in DOMAIN map |-> [i \in 1..Len(map[k]) |-> Earlier(map[k][i], d)]]

LiveInit ==
  /\ now = LiveSpan
  /\ rateLimitTracker = EmptyMap
  /\ accepted = EmptyMap
  /\ lastCall = NoCall
  /\ mark = EmptyMap
  /\ nCalls = 0
  /\ nTicks = 0
  /\ scenario = [phase |-> "use"]
  /\ inv = <<>>
  /\ nInv = 0
  /\ messages = <<>>

\* checkLimit(LiveOp, key, 'user'); IdleKey is called only until its caller leaves.
LiveCall(key, sweep) ==
  /\ key = IdleKey => scenario.phase = "use"
  /\ rateLimitTracker' = checkLimit(rateLimitTracker, now, LiveOp, key, "user", sweep).map
  /\ UNCHANGED <<now, accepted, lastCall, mark, nCalls, nTicks, scenario, inv, nInv, messages>>

\* an accepted call of a key still in use on which Math.random() < 0.01 holds
LiveSweepingCall ==
  \E key \in LiveKeys \ {IdleKey} :
    /\ checkLimit(rateLimitTracker, now, LiveOp, key, "user", TRUE).threw = "none"
    /\ LiveCall(key, TRUE)

\* the caller of IdleKey makes no further call
LiveStop ==
  /\ scenario.phase = "use"
  /\ scenario' = [scenario EXCEPT !.phase = "idle"]
  /\ UNCHANGED <<now, rateLimitTracker, accepted, lastCall, mark, nCalls, nTicks, inv, nInv, messages>>

LiveTick(d) ==
  /\ rateLimitTracker' = Shift(rateLimitTracker, d)
  /\ UNCHANGED <<now, accepted, lastCall, mark, nCalls, nTicks, scenario, inv, nInv, messages>>

DoLiveCall == \E key \in LiveKeys, sweep \in BOOLEAN : LiveCall(key, sweep)
DoLiveTick == \E d \in LiveDeltas : LiveTick(d)

LiveNext == DoLiveCall \/ LiveStop \/ DoLiveTick

\* Time passes, calls of the keys in use keep being accepted, and of infinitely
\* many accepted calls infinitely many draw Math.random() < 0.01.
LiveFairness == WF_vars(DoLiveTick) /\ SF_vars(LiveSweepingCall)

SpecLive == LiveInit /\ [][LiveNext]_vars /\ LiveFairness

(***************************************************************************)
(* Concurrent callers in one process.  A caller awaits (its identity        *)
(* lookup) before it calls checkLimit, so several invocations are in flight *)
(* at once; checkLimit and reset themselves hold no await, so each runs     *)
(* from its read of the map to its write in one step.                       *)
(***************************************************************************)
MaxStarted == 6
AtomicOp == "REGISTER_USER"
AtomicKeys == {"u1", "u2"}

NotStarted == [pc |-> "idle", key |-> "", seen |-> <<>>, threw |-> "none"]

ReadView_AtStart(map, k, seen) == MapSet(map, k, seen)

\* The map checkLimit reads the key's timestamps from (line 72): the map as it
\* is when checkLimit runs, not as it was when the invocation began.
ReadView(map, k, seen) == map

AtomicInit ==
  /\ now = 0
  /\ rateLimitTracker = EmptyMap
  /\ accepted = EmptyMap
  /\ lastCall = NoCall
  /\ mark = EmptyMap
  /\ nCalls = 0
  /\ nTicks = 0
  /\ scenario = <<>>
  /\ inv = [s \in Slots |-> NotStarted]
  /\ nInv = 0
  /\ messages = <<>>

\* An invocation begins and awaits; seen remembers what the key held then.
Begin(s, key) ==
  /\ inv[s].pc \in {"idle", "done"}
  /\ nInv < MaxStarted
  /\ inv' = [inv EXCEPT ![s] = [pc |-> "pending", key |-> key,
                                seen |-> MapGet(rateLimitTracker, TrackerKey(AtomicOp, key)),
                                threw |-> "none"]]
  /\ nInv' = nInv + 1
  /\ UNCHANGED <<now, rateLimitTracker, accepted, lastCall, mark, nCalls, nTicks, scenario, messages>>

\* The invocation resumes and calls checkLimit, which runs to its end.
RunCheck(s, sweep) ==
  LET key == inv[s].key
      k == TrackerKey(AtomicOp, key)
      res == checkLimit(ReadView(rateLimitTracker, k, inv[s].seen), now, AtomicOp, key,
                        "user", sweep)
  IN /\ inv[s].pc = "pending"
     /\ rateLimitTracker' = res.map
     /\ accepted' = AcceptedAfter(accepted, k, AtomicOp, res, now)
     /\ lastCall' = [NoCall EXCEPT !.kind = "checkLimit", !.op = AtomicOp, !.key = key,
                                   !.role = "user", !.time = now, !.threw = res.threw,
                                   !.count = res.count, !.resetIn = res.resetIn,
                                   !.held = Len(MapGet(rateLimitTracker, k))]
     /\ inv' = [inv EXCEPT ![s].pc = "done", ![s].threw = res.threw]
     /\ nCalls' = nCalls + 1
     /\ UNCHANGED <<now, mark, nTicks, scenario, nInv, messages>>

\* Another invocation resets a key.
AtomicReset(key) ==
  /\ nInv < MaxStarted
  /\ rateLimitTracker' = reset(rateLimitTracker, AtomicOp, key)
  /\ accepted' = MapDelete(accepted, TrackerKey(AtomicOp, key))
  /\ lastCall' = [NoCall EXCEPT !.kind = "reset", !.op = AtomicOp, !.key = key, !.time = now,
                                !.held = Len(MapGet(rateLimitTracker,
                                                    TrackerKey(AtomicOp, key)))]
  /\ nInv' = nInv + 1
  /\ UNCHANGED <<now, mark, nCalls, nTicks, scenario, inv, messages>>

DoBegin == \E s \in Slots, key \in AtomicKeys : Begin(s, key)
DoRunCheck == \E s \in Slots, sweep \in BOOLEAN : RunCheck(s, sweep)
DoAtomicReset == \E key \in AtomicKeys : AtomicReset(key)

AtomicNext == DoBegin \/ DoRunCheck \/ DoAtomicReset

SpecAtomic == AtomicInit /\ [][AtomicNext]_vars

(***************************************************************************)
(* Several process instances.  Each loads the module and so holds its own   *)
(* rateLimitTracker: here rateLimitTracker[p] is the map of instance p.     *)
(* accepted is the history over all instances, scenario.admitted[p] the     *)
(* history of instance p alone.                                             *)
(***************************************************************************)
MaxMultiCalls == 6
MaxMultiTicks == 1

Instances == {1, 2}
MultiOps == {"UPLOAD_FILE", "REGISTER_USER"}
MultiKey == "u1"
MultiDeltas == {300000}

\* the accepted calls of one history that a window ending at t still holds
WindowAfter(hist, op, res, t) ==
  IF res.threw = "none"
    THEN Append(FilterNewer(hist, t - RATE_LIMITS[op].period), t)
    ELSE hist

MultiInit ==
  /\ now = 0
  /\ rateLimitTracker = [p \in Instances |-> EmptyMap]
  /\ accepted = EmptyMap
  /\ lastCall = NoCall
  /\ mark = EmptyMap
  /\ nCalls = 0
  /\ nTicks = 0
  /\ \E operation \in MultiOps :
       scenario = [op |-> operation, admitted |-> [p \in Instances |-> <<>>]]
  /\ inv = <<>>
  /\ nInv = 0
  /\ messages = <<>>

\* checkLimit(scenario.op, MultiKey, 'user') served by instance p
MultiCall(p, sweep) ==
  LET res == checkLimit(rateLimitTracker[p], now, scenario.op, MultiKey, "user", sweep)
      k == TrackerKey(scenario.op, MultiKey)
  IN /\ nCalls < MaxMultiCalls
     /\ rateLimitTracker' = [rateLimitTracker EXCEPT ![p] = res.map]
     /\ accepted' = AcceptedAfter(accepted, k, scenario.op, res, now)
     /\ scenario' = [scenario EXCEPT
                       !.admitted[p] = WindowAfter(@, scenario.op, res, now)]
     /\ nCalls' = nCalls + 1
     /\ UNCHANGED <<now, lastCall, mark, nTicks, inv, nInv, messages>>

MultiTick(d) ==
  /\ nTicks < MaxMultiTicks
  /\ now' = now + d
  /\ nTicks' = nTicks + 1
  /\ UNCHANGED <<rateLimitTracker, accepted, lastCall, mark, nCalls, scenario, inv, nInv, messages>>

DoMultiCall == \E p \in Instances, sweep \in BOOLEAN : MultiCall(p, sweep)
DoMultiTick == \E d \in MultiDeltas : MultiTick(d)

MultiNext == DoMultiCall \/ DoMultiTick

SpecMulti == MultiInit /\ [][MultiNext]_vars

(***************************************************************************)
(* Several (operation, key) pairs in one process, and the calls of one      *)
(* watched pair run a second time on their own: rateLimitTracker is the map *)
(* of the run with the calls of every pair, scenario.alone the map of the   *)
(* run with the watched pair's calls only, at the same times and with the   *)
(* same random draws.                                                       *)
(***************************************************************************)
MaxPairCalls == 6
MaxPairTicks == 1

Pairs == {<<"REGISTER_USER", "u1">>, <<"REGISTER_USER", "u2">>, <<"UPLOAD_FILE", "u1">>}
PairDeltas == {300000}

PairInit ==
  /\ now = 0
  /\ rateLimitTracker = EmptyMap
  /\ accepted = EmptyMap
  /\ lastCall = NoCall
  /\ mark = EmptyMap
  /\ nCalls = 0
  /\ nTicks = 0
  /\ \E pr \in Pairs :
       scenario = [watched |-> pr, alone |-> EmptyMap, lastFull |-> "none", lastAlone |-> "none"]
  /\ inv = <<>>
  /\ nInv = 0
  /\ messages = <<>>

\* checkLimit(pr[1], pr[2], 'user')
PairCall(pr, sweep) ==
  LET res == checkLimit(rateLimitTracker, now, pr[1], pr[2], "user", sweep)
      resAlone == checkLimit(scenario.alone, now, pr[1], pr[2], "user", sweep)
  IN /\ nCalls < MaxPairCalls
     /\ rateLimitTracker' = res.map
     /\ scenario' = IF pr = scenario.watched
                      THEN [scenario EXCEPT !.alone = resAlone.map,
                                            !.lastFull = res.threw,
                                            !.lastAlone = resAlone.threw]
                      ELSE scenario
     /\ lastCall' = [NoCall EXCEPT !.kind = "checkLimit", !.op = pr[1], !.key = pr[2],
                                   !.role = "user", !.time = now, !.threw = res.threw,
                                   !.count = res.count, !.resetIn = res.resetIn,
                                   !.held = Len(MapGet(rateLimitTracker, pr))]
     /\ nCalls' = nCalls + 1
     /\ UNCHANGED <<now, accepted, mark, nTicks, inv, nInv, messages>>

\* reset(pr[1], pr[2])
PairReset(pr) ==
  /\ nCalls < MaxPairCalls
  /\ rateLimitTracker' = reset(rateLimitTracker, pr[1], pr[2])
  /\ scenario' = IF pr = scenario.watched
                   THEN [scenario EXCEPT !.alone = reset(scenario.alone, pr[1], pr[2])]
                   ELSE scenario
  /\ lastCall' = [NoCall EXCEPT !.kind = "reset", !.op = pr[1], !.key = pr[2], !.time = now,
                                !.held = Len(MapGet(rateLimitTracker, pr))]
  /\ nCalls' = nCalls + 1
  /\ UNCHANGED <<now, accepted, mark, nTicks, inv, nInv, messages>>

PairTick(d) ==
  /\ nTicks < MaxPairTicks
  /\ now' = now + d
  /\ nTicks' = nTicks + 1
  /\ UNCHANGED <<rateLimitTracker, accepted, lastCall, mark, nCalls, scenario, inv, nInv, messages>>

DoPairCall == \E pr \in Pairs, sweep \in BOOLEAN : PairCall(pr, sweep)
DoPairReset == \E pr \in Pairs : PairReset(pr)
DoPairTick == \E d \in PairDeltas : PairTick(d)

PairNext == DoPairCall \/ DoPairReset \/ DoPairTick

SpecPairs == PairInit /\ [][PairNext]_vars

(***************************************************************************)
(* Calls of getRateLimitConfig.  scenario.limits and scenario.multipliers   *)
(* are the module-level objects RATE_LIMITS and ROLE_MULTIPLIERS as the     *)
(* calls leave them, scenario.calls the calls made with their results.      *)
(***************************************************************************)
MaxConfigCalls == 2

ConfigNames == DOMAIN RATE_LIMITS
\* every role of the table, and the role argument left out
ConfigRoles == DOMAIN ROLE_MULTIPLIERS \cup {Undefined}

\* The result is a new object, { ...baseLimit, maxTokens: ... }: the call
\* assigns nothing to the tables.
TablesAfterConfig(tables, limitName, roleArg) == tables

ConfigInit ==
  /\ now = 0
  /\ rateLimitTracker = EmptyMap
  /\ accepted = EmptyMap
  /\ lastCall = NoCall
  /\ mark = EmptyMap
  /\ nCalls = 0
  /\ nTicks = 0
  /\ scenario = [tables |-> [limits |-> RATE_LIMITS, multipliers |-> ROLE_MULTIPLIERS],
                 calls |-> <<>>]
  /\ inv = <<>>
  /\ nInv = 0
  /\ messages = <<>>

\* getRateLimitConfig(limitName, role)
ConfigCall(limitName, roleArg) ==
  /\ nCalls < MaxConfigCalls
  /\ scenario' = [tables |-> TablesAfterConfig(scenario.tables, limitName, roleArg),
                  calls |-> Append(scenario.calls,
                                   [limitName |-> limitName, roleArg |-> roleArg,
                                    result |-> getRateLimitConfig(limitName, roleArg)])]
  /\ nCalls' = nCalls + 1
  /\ UNCHANGED <<now, rateLimitTracker, accepted, lastCall, mark, nTicks, inv, nInv, messages>>

ConfigNext == \E limitName \in ConfigNames, roleArg \in ConfigRoles : ConfigCall(limitName, roleArg)

SpecConfig == ConfigInit /\ [][ConfigNext]_vars

(***************************************************************************)
(* messages.send: anyone can send, rate limited (convex/messages.ts)       *)
(***************************************************************************)
MaxSends == 11

SendCallers == {c \in Callers : c.user # Root}
SendContents == {"hello"}

\* try { user = await authComponent.getAuthUser(ctx) } catch { }: null when the
\* lookup resolves to null and when it rejects
LookupOrNull(caller) == IF caller.lookup = "user" THEN caller.user ELSE NoUser

\* user?._id || 'anonymous'
SendKey(user) == IF user = NoUser \/ user._id = "" THEN "anonymous" ELSE user._id
\* user ? 'user' : 'guest'
SendRole(user) == IF user = NoUser THEN "guest" ELSE "user"

\* the document send inserts
NewMessage(content, user, t) ==
  [content |-> content,
   authorId |-> IF user = NoUser THEN Undefined ELSE user._id,
   authorName |-> IF user = NoUser THEN "Anonymous" ELSE user.name,
   createdAt |-> t]

\* ctx.db.insert gives the stored document a fresh _id
Inserted(id, doc) == [_id |-> id] @@ doc

NoSend ==
  [pc |-> "idle", caller |-> [lookup |-> "null", user |-> NoUser], content |-> "",
   user |-> NoUser, key |-> "", role |-> "", error |-> NoError, inserted |-> FALSE]

SendInit ==
  /\ now = 0
  /\ rateLimitTracker = EmptyMap
  /\ accepted = EmptyMap
  /\ lastCall = NoCall
  /\ mark = EmptyMap
  /\ nCalls = 0
  /\ nTicks = 0
  /\ scenario = <<>>
  /\ inv = NoSend
  /\ nInv = 0
  /\ messages = <<>>

\* send is invoked and awaits the identity lookup.
SendInvoke(caller, content) ==
  /\ inv.pc \in {"idle", "done"}
  /\ nInv < MaxSends
  /\ inv' = [NoSend EXCEPT !.pc = "lookup", !.caller = caller, !.content = content]
  /\ nInv' = nInv + 1
  /\ UNCHANGED <<now, rateLimitTracker, accepted, lastCall, mark, nCalls, nTicks, scenario, messages>>

\* The lookup settles; key and role are derived and checkLimit runs.
SendCheck(sweep) ==
  LET user == LookupOrNull(inv.caller)
      key == SendKey(user)
      role == SendRole(user)
      res == checkLimit(rateLimitTracker, now, "SEND_MESSAGE", key, role, sweep)
  IN /\ inv.pc = "lookup"
     /\ CheckLimitStep("SEND_MESSAGE", key, role, sweep)
     /\ inv' = [inv EXCEPT !.pc = IF res.threw = "none" THEN "insert" ELSE "done",
                           !.user = user, !.key = key, !.role = role,
                           !.error = ThrownBy(res, "SEND_MESSAGE")]
     /\ UNCHANGED <<scenario, nInv, messages>>

\* return await ctx.db.insert('messages', ...)
SendInsert ==
  /\ inv.pc = "insert"
  /\ messages' = Append(messages, Inserted(nInv, NewMessage(inv.content, inv.user, now)))
  /\ inv' = [inv EXCEPT !.pc = "done", !.inserted = TRUE]
  /\ UNCHANGED <<now, rateLimitTracker, accepted, lastCall, mark, nCalls, nTicks, scenario, nInv>>

DoSendInvoke == \E caller \in SendCallers, content \in SendContents : SendInvoke(caller, content)
DoSendCheck == \E sweep \in BOOLEAN : SendCheck(sweep)

SendNext == DoSendInvoke \/ DoSendCheck \/ SendInsert

SpecSend == SendInit /\ [][SendNext]_vars

(***************************************************************************)
(* Two runs of the same calls: one in which the sweep fires after accepted *)
(* calls, one in which it never fires (specification SpecSweep)            *)
(***************************************************************************)

MaxSweepCalls == 5
MaxSweepTicks == 1
SweepOps == DOMAIN RATE_LIMITS
SweepKey == "u1"
SweepDeltas == {300000}

\* scenario.plain: the tracker map of the run in which Math.random() < 0.01 is
\* never true; rateLimitTracker: the run in which it may be true on any call
SweepInit ==
  /\ now = 0
  /\ rateLimitTracker = EmptyMap
  /\ accepted = EmptyMap
  /\ lastCall = NoCall
  /\ mark = EmptyMap
  /\ nCalls = 0
  /\ nTicks = 0
  /\ scenario = [plain |-> EmptyMap, lastPlain |-> "none"]
  /\ inv = <<>>
  /\ nInv = 0
  /\ messages = <<>>

\* checkLimit(operation, SweepKey, 'user') in both runs
SweepCall(operation, sweep) ==
  LET res == checkLimit(rateLimitTracker, now, operation, SweepKey, "user", sweep)
      resPlain == checkLimit(scenario.plain, now, operation, SweepKey, "user", FALSE)
  IN /\ nCalls < MaxSweepCalls
     /\ rateLimitTracker' = res.map
     /\ scenario' = [plain |-> resPlain.map, lastPlain |-> resPlain.threw]
     /\ lastCall' = [NoCall EXCEPT !.kind = "checkLimit", !.op = operation, !.key = SweepKey,
                                   !.role = "user", !.time = now, !.threw = res.threw,
                                   !.count = res.count, !.resetIn = res.resetIn,
                                   !.held = Len(MapGet(rateLimitTracker,
                                                       TrackerKey(operation, SweepKey)))]
     /\ nCalls' = nCalls + 1
     /\ UNCHANGED <<now, accepted, mark, nTicks, inv, nInv, messages>>

SweepTick(d) ==
  /\ nTicks < MaxSweepTicks
  /\ now' = now + d
  /\ nTicks' = nTicks + 1
  /\ UNCHANGED <<rateLimitTracker, accepted, lastCall, mark, nCalls, scenario, inv, nInv, messages>>

DoSweepCall == \E operation \in SweepOps, sweep \in BOOLEAN : SweepCall(operation, sweep)
DoSweepTick == \E d \in SweepDeltas : SweepTick(d)

SweepNext == DoSweepCall \/ DoSweepTick

SpecSweep == SweepInit /\ [][SweepNext]_vars

(***************************************************************************)
(* The entries of the map and the role of the last accepted call of each   *)
(* key (specification SpecEntries)                                         *)
(***************************************************************************)

MaxEntryCalls == 5
MaxEntryTicks == 2
EntryOp == "REGISTER_USER"
EntryKeys == {"u1", "u2"}
EntryRoles == {"user", "admin", "guest"}
EntryDeltas == {300000, 3599999}

\* scenario: per tracker key, the role of the most recent accepted call
EntryInit ==
  /\ now = 0
  /\ rateLimitTracker = EmptyMap
  /\ accepted = EmptyMap
  /\ lastCall = NoCall
  /\ mark = EmptyMap
  /\ nCalls = 0
  /\ nTicks = 0
  /\ scenario = EmptyMap
  /\ inv = <<>>
  /\ nInv = 0
  /\ messages = <<>>

\* checkLimit(EntryOp, key, role)
EntryCall(key, role, sweep) ==
  LET res == checkLimit(rateLimitTracker, now, EntryOp, key, role, sweep)
      k == TrackerKey(EntryOp, key)
  IN /\ nCalls < MaxEntryCalls
     /\ rateLimitTracker' = res.map
     /\ scenario' = IF res.threw = "none" THEN MapSet(scenario, k, role) ELSE scenario
     /\ lastCall' = [NoCall EXCEPT !.kind = "checkLimit", !.op = EntryOp, !.key = key,
                                   !.role = role, !.time = now, !.threw = res.threw,
                                   !.count = res.count, !.resetIn = res.resetIn,
                                   !.held = Len(MapGet(rateLimitTracker, k))]
     /\ nCalls' = nCalls + 1
     /\ UNCHANGED <<now, accepted, mark, nTicks, inv, nInv, messages>>

\* reset(EntryOp, key)
EntryReset(key) ==
  /\ nCalls < MaxEntryCalls
  /\ rateLimitTracker' = reset(rateLimitTracker, EntryOp, key)
  /\ lastCall' = [NoCall EXCEPT !.kind = "reset", !.op = EntryOp, !.key = key, !.time = now,
                                !.held = Len(MapGet(rateLimitTracker,
                                                    TrackerKey(EntryOp, key)))]
  /\ nCalls' = nCalls + 1
  /\ UNCHANGED <<now, accepted, mark, nTicks, scenario, inv, nInv, messages>>

EntryTick(d) ==
  /\ nTicks < MaxEntryTicks
  /\ now' = now + d
  /\ nTicks' = nTicks + 1
  /\ UNCHANGED <<rateLimitTracker, accepted, lastCall, mark, nCalls, scenario, inv, nInv, messages>>

DoEntryCall == \E key \in EntryKeys, role \in EntryRoles, sweep \in BOOLEAN :
                 EntryCall(key, role, sweep)
DoEntryReset == \E key \in EntryKeys : EntryReset(key)
DoEntryTick == \E d \in EntryDeltas : EntryTick(d)

EntryNext == DoEntryCall \/ DoEntryReset \/ DoEntryTick

SpecEntries == EntryInit /\ [][EntryNext]_vars

(***************************************************************************)
(* MockRateLimitService (specification SpecMock)                           *)
(***************************************************************************)

MaxMockCalls == 3
MockOps == {"SEND_MESSAGE", "NO_SUCH_LIMIT"}
MockKeys == {"user-123", "u2"}
MockRoleArgs == {Undefined, "admin", "guest"}

\* checkLimit(operation, key, role = 'user') of the mock on the array checks
mockCheckLimit_NoDefault(checks, operation, key, roleArg) ==
  [threw |-> "none",
   checks |-> Append(checks, [operation |-> operation, key |-> key, role |-> roleArg])]

mockCheckLimit(checks, operation, key, roleArg) ==
  [threw |-> "none",
   checks |-> Append(checks, [operation |-> operation, key |-> key,
                              role |-> DefaultTo(roleArg, "user")])]

\* reset(operation, key) of the mock
mockReset(checks, operation, key) ==
  SelectSeq(checks, LAMBDA check : ~(check.operation = operation /\ check.key = key))

\* getChecks()
getChecks(checks) == checks

\* clear()
mockClear(checks) == <<>>

\* scenario.checks: the field checks; scenario.calls: the checkLimit calls made
\* (history); scenario.cleared: whether reset or clear was called (history)
MockInit ==
  /\ now = 0
  /\ rateLimitTracker = EmptyMap
  /\ accepted = EmptyMap
  /\ lastCall = NoCall
  /\ mark = EmptyMap
  /\ nCalls = 0
  /\ nTicks = 0
  /\ scenario = [checks |-> <<>>, calls |-> <<>>, cleared |-> FALSE]
  /\ inv = <<>>
  /\ nInv = 0
  /\ messages = <<>>

MockCheckLimit(operation, key, roleArg) ==
  LET res == mockCheckLimit(scenario.checks, operation, key, roleArg)
  IN /\ nCalls < MaxMockCalls
     /\ scenario' = [scenario EXCEPT
                       !.checks = res.checks,
                       !.calls = Append(@, [operation |-> operation, key |-> key,
                                            roleArg |-> roleArg])]
     /\ lastCall' = [NoCall EXCEPT !.kind = "checkLimit", !.op = operation, !.key = key,
                                   !.role = roleArg, !.threw = res.threw]
     /\ nCalls' = nCalls + 1
     /\ UNCHANGED <<now, rateLimitTracker, accepted, mark, nTicks, inv, nInv, messages>>

MockReset(operation, key) ==
  /\ nCalls < MaxMockCalls
  /\ scenario' = [scenario EXCEPT !.checks = mockReset(@, operation, key), !.cleared = TRUE]
  /\ lastCall' = [NoCall EXCEPT !.kind = "reset", !.op = operation, !.key = key]
  /\ nCalls' = nCalls + 1
  /\ UNCHANGED <<now, rateLimitTracker, accepted, mark, nTicks, inv, nInv, messages>>

MockClear ==
  /\ nCalls < MaxMockCalls
  /\ scenario' = [scenario EXCEPT !.checks = mockClear(@), !.cleared = TRUE]
  /\ lastCall' = [NoCall EXCEPT !.kind = "clear"]
  /\ nCalls' = nCalls + 1
  /\ UNCHANGED <<now, rateLimitTracker, accepted, mark, nTicks, inv, nInv, messages>>

DoMockCheckLimit == \E operation \in MockOps, key \in MockKeys, roleArg \in MockRoleArgs :
                      MockCheckLimit(operation, key, roleArg)
DoMockReset == \E operation \in MockOps, key \in MockKeys : MockReset(operation, key)

MockNext == DoMockCheckLimit \/ DoMockReset \/ MockClear

SpecMock == MockInit /\ [][MockNext]_vars

(***************************************************************************)
(* compose(...decorators)(handler) (specification SpecCompose)             *)
(***************************************************************************)

MaxComposed == 6

\* The decorators given to compose, each h => withRateLimit(h, operation).
Chains == { <<"UPLOAD_FILE">>, <<"UPLOAD_FILE", "REGISTER_USER">> }

\* The handler compose gives to each decorator receives (ctx, args, user) and
\* calls the accumulated function as acc(ctx, args): acc's third parameter is
\* left unset.
ThirdArgumentOfAcc(user) == NoUser

NoComposed ==
  [pc |-> "idle", caller |-> [lookup |-> "null", user |-> NoUser], chain |-> <<>>,
   stage |-> 0, admitted |-> 0, user |-> NoUser, passed |-> NoUser,
   handlerRuns |-> 0, handlerUser |-> NoUser, error |-> NoError]

ComposeInit ==
  /\ now = 0
  /\ rateLimitTracker = EmptyMap
  /\ accepted = EmptyMap
  /\ lastCall = NoCall
  /\ mark = EmptyMap
  /\ nCalls = 0
  /\ nTicks = 0
  /\ scenario = <<>>
  /\ inv = NoComposed
  /\ nInv = 0
  /\ messages = <<>>

\* The composed function is invoked: the outermost decorator's function starts
\* and awaits requireAuth.
ComposeInvoke(caller, chain) ==
  /\ inv.pc \in {"idle", "done"}
  /\ nInv < MaxComposed
  /\ inv' = [NoComposed EXCEPT !.pc = "stage", !.caller = caller, !.chain = chain, !.stage = 1]
  /\ nInv' = nInv + 1
  /\ UNCHANGED <<now, rateLimitTracker, accepted, lastCall, mark, nCalls, nTicks, scenario, messages>>

\* requireAuth of the decorator at inv.stage throws.
ComposeAuthFails ==
  LET auth == requireAuth(inv.caller)
  IN /\ inv.pc = "stage"
     /\ auth.threw # NoError
     /\ inv' = [inv EXCEPT !.pc = "done", !.error = auth.threw]
     /\ UNCHANGED <<now, rateLimitTracker, accepted, lastCall, mark, nCalls, nTicks, scenario, nInv, messages>>

\* The decorator at inv.stage: requireAuth, key, role, checkLimit; when admitted
\* it calls the handler compose gave it, which calls the next decorator's
\* function, or the original handler after the last decorator.
ComposeStage(sweep) ==
  LET auth == requireAuth(inv.caller)
      operation == inv.chain[inv.stage]
      key == auth.user._id
      role == IF isAdmin(auth.user) THEN "admin" ELSE "user"
      res == checkLimit(rateLimitTracker, now, operation, key, role, sweep)
  IN /\ inv.pc = "stage"
     /\ auth.threw = NoError
     /\ CheckLimitStep(operation, key, role, sweep)
     /\ inv' = IF res.threw # "none"
                 THEN [inv EXCEPT !.pc = "done", !.user = auth.user,
                                  !.error = ThrownBy(res, operation)]
                 ELSE IF inv.stage < Len(inv.chain)
                        THEN [inv EXCEPT !.stage = @ + 1, !.admitted = @ + 1,
                                         !.user = auth.user]
                        ELSE [inv EXCEPT !.pc = "handler", !.admitted = @ + 1,
                                         !.user = auth.user,
                                         !.passed = ThirdArgumentOfAcc(auth.user)]
     /\ UNCHANGED <<scenario, nInv, messages>>

\* The original handler runs with the arguments it was called with.
ComposeHandler(fails) ==
  /\ inv.pc = "handler"
  /\ inv' = [inv EXCEPT !.pc = "done", !.handlerRuns = @ + 1, !.handlerUser = inv.passed,
                        !.error = IF fails THEN HandlerError ELSE NoError]
  /\ UNCHANGED <<now, rateLimitTracker, accepted, lastCall, mark, nCalls, nTicks, scenario, nInv, messages>>

DoComposeInvoke == \E caller \in Callers, chain \in Chains : ComposeInvoke(caller, chain)
DoComposeStage == \E sweep \in BOOLEAN : ComposeStage(sweep)
DoComposeHandler == \E fails \in BOOLEAN : ComposeHandler(fails)

ComposeNext == DoComposeInvoke \/ ComposeAuthFails \/ DoComposeStage \/ DoComposeHandler

SpecCompose == ComposeInit /\ [][ComposeNext]_vars

(***************************************************************************)
(* The custom function wrappers: publicQuery..., authQuery, authMutation,  *)
(* adminQuery, adminMutation (specification SpecCustom)                    *)
(***************************************************************************)

MaxCustomCalls == 3

Dana == [_id |-> "dana", name |-> "Dana", email |-> "dana@example.com",
         role |-> "admin", org |-> Undefined]

CustomCallers == Callers \cup {[lookup |-> "user", user |-> Dana]}

\* The wrappers by what their input does: nothing, requireAuth, requireAdmin.
CustomWrappers == {"public", "auth", "admin"}

\* A thrown value: an instance of ConvexError, another instance of Error, or
\* any other value.
NoThrow == [class |-> "none", message |-> ""]
Thrown(class, message) == [class |-> class, message |-> message]

\* What a rejecting authComponent.getAuthUser(ctx) may reject with.
LookupRejections ==
  { Thrown("ConvexError", "Unauthenticated"),
    Thrown("Error", "fetch failed"),
    Thrown("other", "") }

\* What a registered handler may do: return, or throw a value.
HandlerOutcomes ==
  { NoThrow,
    Thrown("ConvexError", "Message not found"),
    Thrown("Error", "Cannot read properties of null"),
    Thrown("other", "") }

AdminAccessRequired == [kind |-> "AdminAccessRequired", op |-> "", resetIn |-> 0]

\* requireAdmin(ctx): requireAuth, then isAdmin(user) or throw
requireAdmin_AuthOnly(caller) == requireAuth(caller)

requireAdmin(caller) ==
  LET auth == requireAuth(caller)
  IN IF auth.threw # NoError
       THEN auth
       ELSE IF ~isAdmin(auth.user)
              THEN [threw |-> AdminAccessRequired, user |-> NoUser]
              ELSE auth

\* The value thrown by requireAuth / requireAdmin: their own `new Error(...)`,
\* or the rejection of the lookup.
ValueThrown(err, rejection) ==
  CASE err = AuthenticationRequired -> Thrown("Error", "Authentication required")
    [] err = AdminAccessRequired -> Thrown("Error", "Admin access required")
    [] err = LookupError -> rejection
    [] OTHER -> NoThrow

\* handleServerError(error, context): what it throws
handleServerError(error) ==
  IF error.class = "ConvexError"
    THEN error
    ELSE Thrown("ConvexError",
                IF error.class = "Error" THEN error.message
                                         ELSE "An unexpected error occurred")

NoCustom ==
  [pc |-> "idle", wrapper |-> "", caller |-> [lookup |-> "null", user |-> NoUser],
   ctxUser |-> NoUser, ctxUserId |-> "", handlerRuns |-> 0,
   origin |-> "none", thrown |-> NoThrow, error |-> NoThrow]

CustomInit ==
  /\ now = 0
  /\ rateLimitTracker = EmptyMap
  /\ accepted = EmptyMap
  /\ lastCall = NoCall
  /\ mark = EmptyMap
  /\ nCalls = 0
  /\ nTicks = 0
  /\ scenario = <<>>
  /\ inv = NoCustom
  /\ nInv = 0
  /\ messages = <<>>

\* A function built with the wrapper is called: its input starts.
CustomInvoke(wrapper, caller) ==
  /\ inv.pc \in {"idle", "done"}
  /\ nInv < MaxCustomCalls
  /\ inv' = [NoCustom EXCEPT !.pc = "input", !.wrapper = wrapper, !.caller = caller]
  /\ nInv' = nInv + 1
  /\ UNCHANGED <<now, rateLimitTracker, accepted, lastCall, mark, nCalls, nTicks, scenario, messages>>

\* input of the public wrappers: return { ctx: {}, args: {} }
PublicInput ==
  /\ inv.pc = "input"
  /\ inv.wrapper = "public"
  /\ inv' = [inv EXCEPT !.pc = "handler"]
  /\ UNCHANGED <<now, rateLimitTracker, accepted, lastCall, mark, nCalls, nTicks, scenario, nInv, messages>>

\* input of the auth and admin wrappers: try { user = await requireAuth(ctx) or
\* requireAdmin(ctx); return { ctx: { ...ctx, user, userId: user._id } } }
\* catch (e) { handleServerError(e, ...) }
AuthInput(rejection) ==
  LET auth == IF inv.wrapper = "admin" THEN requireAdmin(inv.caller)
                                       ELSE requireAuth(inv.caller)
      e == ValueThrown(auth.threw, rejection)
  IN /\ inv.pc = "input"
     /\ inv.wrapper \in {"auth", "admin"}
     /\ inv' = IF auth.threw # NoError
                 THEN [inv EXCEPT !.pc = "done", !.origin = "input", !.thrown = e,
                                  !.error = handleServerError(e)]
                 ELSE [inv EXCEPT !.pc = "handler", !.ctxUser = auth.user,
                                  !.ctxUserId = auth.user._id]
     /\ UNCHANGED <<now, rateLimitTracker, accepted, lastCall, mark, nCalls, nTicks, scenario, nInv, messages>>

\* The registered handler runs with the injected ctx; what it throws leaves
\* the function as thrown.
CustomHandler(outcome) ==
  /\ inv.pc = "handler"
  /\ inv' = [inv EXCEPT !.pc = "done", !.handlerRuns = @ + 1,
                        !.origin = IF outcome = NoThrow THEN "none" ELSE "handler",
                        !.thrown = outcome, !.error = outcome]
  /\ UNCHANGED <<now, rateLimitTracker, accepted, lastCall, mark, nCalls, nTicks, scenario, nInv, messages>>

DoCustomInvoke == \E wrapper \in CustomWrappers, caller \in CustomCallers :
                    CustomInvoke(wrapper, caller)
DoAuthInput == \E rejection \in LookupRejections : AuthInput(rejection)
DoCustomHandler == \E outcome \in HandlerOutcomes : CustomHandler(outcome)

CustomNext == DoCustomInvoke \/ PublicInput \/ DoAuthInput \/ DoCustomHandler

SpecCustom == CustomInit /\ [][CustomNext]_vars

(***************************************************************************)
(* messages.send, messages.remove, messages.deleteAny                      *)
(* (specification SpecMessages)                                            *)
(***************************************************************************)

MaxMessageCalls == 4

MessageSenders == { c \in Callers : c.lookup # "throws" }
MessageIds == 1..MaxMessageCalls

\* ctx.db.get(id): the document, or null (here the empty sequence)
DbGet(table, id) == SelectSeq(table, LAMBDA doc : doc._id = id)
\* ctx.db.delete(id)
DbDelete(table, id) == SelectSeq(table, LAMBDA doc : doc._id # id)

MessageNotFound == [kind |-> "MessageNotFound", op |-> "", resetIn |-> 0]
NotAuthorizedToDelete == [kind |-> "NotAuthorizedToDelete", op |-> "", resetIn |-> 0]

\* remove: message.authorId !== user._id throws
IsAuthor_Anyone(message, user) == TRUE

IsAuthor(message, user) == message.authorId = user._id

\* The handler of remove on the table: what it throws and the table it leaves.
remove(table, caller, id) ==
  LET auth == requireAuth(caller)
      found == DbGet(table, id)
  IN IF auth.threw # NoError THEN [threw |-> auth.threw, table |-> table]
     ELSE IF found = <<>> THEN [threw |-> MessageNotFound, table |-> table]
     ELSE IF ~IsAuthor(found[1], auth.user)
            THEN [threw |-> NotAuthorizedToDelete, table |-> table]
     ELSE [threw |-> NoError, table |-> DbDelete(table, id)]

\* The handler of deleteAny on the table.
deleteAny(table, caller, id) ==
  LET auth == requireAdmin(caller)
      found == DbGet(table, id)
  IN IF auth.threw # NoError THEN [threw |-> auth.threw, table |-> table]
     ELSE IF found = <<>> THEN [threw |-> MessageNotFound, table |-> table]
     ELSE [threw |-> NoError, table |-> DbDelete(table, id)]

\* scenario: the last remove or deleteAny call (history); n numbers the calls
NoDelete ==
  [n |-> 0, fn |-> "", caller |-> [lookup |-> "null", user |-> NoUser], id |-> 0,
   error |-> NoError]

MessagesInit ==
  /\ now = 0
  /\ rateLimitTracker = EmptyMap
  /\ accepted = EmptyMap
  /\ lastCall = NoCall
  /\ mark = EmptyMap
  /\ nCalls = 0
  /\ nTicks = 0
  /\ scenario = NoDelete
  /\ inv = NoSend
  /\ nInv = 0
  /\ messages = <<>>

MessageSend(caller, content) ==
  /\ nInv < MaxMessageCalls
  /\ SendInvoke(caller, content)

\* remove({id}) as one transaction
Remove(caller, id) ==
  LET res == remove(messages, caller, id)
  IN /\ nInv < MaxMessageCalls
     /\ messages' = res.table
     /\ scenario' = [n |-> scenario.n + 1, fn |-> "remove", caller |-> caller, id |-> id,
                     error |-> res.threw]
     /\ nInv' = nInv + 1
     /\ UNCHANGED <<now, rateLimitTracker, accepted, lastCall, mark, nCalls, nTicks, inv>>

\* deleteAny({id}) as one transaction
DeleteAny(caller, id) ==
  LET res == deleteAny(messages, caller, id)
  IN /\ nInv < MaxMessageCalls
     /\ messages' = res.table
     /\ scenario' = [n |-> scenario.n + 1, fn |-> "deleteAny", caller |-> caller, id |-> id,
                     error |-> res.threw]
     /\ nInv' = nInv + 1
     /\ UNCHANGED <<now, rateLimitTracker, accepted, lastCall, mark, nCalls, nTicks, inv>>

DoMessageSend == \E caller \in MessageSenders, content \in SendContents :
                   MessageSend(caller, content)
DoRemove == \E caller \in CustomCallers, id \in MessageIds : Remove(caller, id)
DoDeleteAny == \E caller \in CustomCallers, id \in MessageIds : DeleteAny(caller, id)

MessagesNext == DoMessageSend \/ DoSendCheck \/ SendInsert \/ DoRemove \/ DoDeleteAny

SpecMessages == MessagesInit /\ [][MessagesNext]_vars

(***************************************************************************)
(* Properties of the tracker (specification Spec)                          *)
(***************************************************************************)
IsCheck == lastCall.kind = "checkLimit"
KnownOp == lastCall.op \in DOMAIN RATE_LIMITS
KnownRole == lastCall.role \in DOMAIN ROLE_MULTIPLIERS
LastKey == TrackerKey(lastCall.op, lastCall.key)
\* base maxTokens x role multiplier, from the tables
EffectiveMax(op, role) == RATE_LIMITS[op].maxTokens * ROLE_MULTIPLIERS[role]

\* C1: the calls accepted for an (operation, key) since its last reset whose
\* timestamps lie in the window that ends at the latest accepted call never
\* number more than base maxTokens x the multiplier of that call's role.
C1_WindowBound ==
  (IsCheck /\ KnownOp /\ KnownRole /\ lastCall.threw = "none")
    => Len(MapGet(accepted, LastKey)) <= EffectiveMax(lastCall.op, lastCall.role)

\* C3 as stated: once a key was rejected holding exactly effectiveMax timestamps,
\* every later call with the same role made more than the window length after
\* the oldest of those timestamps succeeds.
C3_SucceedsAfterWindow ==
  (/\ IsCheck /\ KnownOp /\ KnownRole
   /\ lastCall.priorMark # <<>>
   /\ lastCall.priorMark[1].role = lastCall.role
   /\ lastCall.priorMark[1].count = EffectiveMax(lastCall.op, lastCall.role)
   /\ lastCall.time > lastCall.priorMark[1].oldest + RATE_LIMITS[lastCall.op].period)
    => lastCall.threw = "none"

\* C3 amended: the same, for the first call of the key accepted after the
\* rejection (no call of the key was accepted in between).
C3_NextCallSucceedsAfterWindow ==
  (/\ IsCheck /\ KnownOp /\ KnownRole
   /\ lastCall.priorMark # <<>>
   /\ ~lastCall.priorMark[1].acceptedSince
   /\ lastCall.priorMark[1].role = lastCall.role
   /\ lastCall.priorMark[1].count = EffectiveMax(lastCall.op, lastCall.role)
   /\ lastCall.time > lastCall.priorMark[1].oldest + RATE_LIMITS[lastCall.op].period)
    => lastCall.threw = "none"

\* a call accepted more than a window after the oldest timestamp of the
\* rejection that preceded it
C3_Witness ==
  /\ IsCheck /\ KnownOp /\ KnownRole
  /\ lastCall.priorMark # <<>>
  /\ ~lastCall.priorMark[1].acceptedSince
  /\ lastCall.priorMark[1].role = lastCall.role
  /\ lastCall.priorMark[1].count = EffectiveMax(lastCall.op, lastCall.role)
  /\ lastCall.time > lastCall.priorMark[1].oldest + RATE_LIMITS[lastCall.op].period
  /\ lastCall.threw = "none"
  /\ lastCall.count > 0

C7_UnknownRoleGetsBaseLimit ==
  (IsCheck /\ KnownOp /\ ~KnownRole)
    => (lastCall.threw = "none" <=> lastCall.count < RATE_LIMITS[lastCall.op].maxTokens)

\* C8: checkLimit right after reset of the same (operation, key) succeeds,
\* whatever the role and whatever the key held.
C8_CheckAfterResetSucceeds ==
  (IsCheck /\ KnownOp /\ lastCall.afterReset) => lastCall.threw = "none"

\* the key was rejected, reset and checked at one instant
C8_Witness ==
  /\ IsCheck /\ KnownOp /\ lastCall.afterReset
  /\ lastCall.priorMark # <<>>
  /\ lastCall.priorMark[1].time = lastCall.time
  /\ ~lastCall.priorMark[1].acceptedSince
  /\ lastCall.threw = "none"

SeqRange(seq) == {seq[i] : i \in 1..Len(seq)}
Min(S) == CHOOSE x \in S : \A y \in S : x <= y

\* C11 as stated: in every state every stored timestamp of every key lies
\* within [now - window, now] for the window of the key's operation.
C11_StoredWithinWindow ==
  \A k \in DOMAIN rateLimitTracker : \A ts \in SeqRange(rateLimitTracker[k]) :
    ts >= now - RATE_LIMITS[k[1]].period /\ ts <= now

\* C11 amended: no stored timestamp lies in the future, and right after an
\* accepted call the timestamps stored for that call's key all lie within
\* (now - window, now], the call's own among them.
C11_AcceptedKeyWithinWindow ==
  /\ \A k \in DOMAIN rateLimitTracker : \A ts \in SeqRange(rateLimitTracker[k]) : ts <= now
  /\ (IsCheck /\ KnownOp /\ lastCall.threw = "none") =>
       /\ LastKey \in DOMAIN rateLimitTracker
       /\ now \in SeqRange(rateLimitTracker[LastKey])
       /\ \A ts \in SeqRange(rateLimitTracker[LastKey]) :
            ts > now - RATE_LIMITS[lastCall.op].period /\ ts <= now

\* an accepted call on a key that held nothing but expired timestamps
C11_Witness ==
  /\ IsCheck /\ KnownOp /\ lastCall.threw = "none"
  /\ lastCall.held = 3 /\ lastCall.count = 0
  /\ rateLimitTracker[LastKey] = <<now>>

C24_RejectionLeavesMap ==
  [][(/\ lastCall'.kind = "checkLimit"
      /\ nCalls' = nCalls + 1
      /\ lastCall'.threw = "RateLimitExceeded")
       => rateLimitTracker' = rateLimitTracker]_vars

\* a rejection of a key that also stores an expired timestamp, which stays
C24_Witness ==
  /\ IsCheck /\ lastCall.threw = "RateLimitExceeded"
  /\ lastCall.count = 3 /\ lastCall.held = 4
  /\ Len(rateLimitTracker[LastKey]) = 4
  /\ rateLimitTracker[LastKey][1] <= now - RATE_LIMITS[lastCall.op].period

\* C25: after a rejection at time t that reported a wait of N seconds, the next
\* call with the same operation, key and role made at t + N*1000 ms or later is
\* accepted, when no call of the key was accepted and the key was not reset in
\* between.
C25_ReportedWaitSuffices ==
  (/\ IsCheck /\ KnownOp /\ KnownRole
   /\ lastCall.priorMark # <<>>
   /\ ~lastCall.priorMark[1].acceptedSince
   /\ ~lastCall.priorMark[1].resetSince
   /\ lastCall.priorMark[1].role = lastCall.role
   /\ lastCall.time >= lastCall.priorMark[1].time + lastCall.priorMark[1].resetIn * 1000)
    => lastCall.threw = "none"

\* C25 (amended): after a rejection at time t that found exactly the effective
\* limit of timestamps in the window and reported a wait of N seconds, the next
\* call with the same operation, key and role made at t + N*1000 ms or later is
\* accepted, when no call of the key was accepted and the key was not reset in
\* between.
C25_ReportedWaitSufficesAtLimit ==
  (/\ IsCheck /\ KnownOp /\ KnownRole
   /\ lastCall.priorMark # <<>>
   /\ ~lastCall.priorMark[1].acceptedSince
   /\ ~lastCall.priorMark[1].resetSince
   /\ lastCall.priorMark[1].role = lastCall.role
   /\ lastCall.priorMark[1].count = EffectiveMax(lastCall.op, lastCall.role)
   /\ lastCall.time >= lastCall.priorMark[1].time + lastCall.priorMark[1].resetIn * 1000)
    => lastCall.threw = "none"

\* a call made exactly when the reported wait has elapsed, and accepted
C25_Witness ==
  /\ IsCheck /\ KnownOp /\ KnownRole
  /\ lastCall.priorMark # <<>>
  /\ ~lastCall.priorMark[1].acceptedSince
  /\ ~lastCall.priorMark[1].resetSince
  /\ lastCall.priorMark[1].role = lastCall.role
  /\ lastCall.priorMark[1].count = EffectiveMax(lastCall.op, lastCall.role)
  /\ lastCall.priorMark[1].resetIn > 0
  /\ lastCall.time = lastCall.priorMark[1].time + lastCall.priorMark[1].resetIn * 1000
  /\ lastCall.threw = "none"

(***************************************************************************)
(* Properties of a burst (specification SpecBurst)                         *)
(***************************************************************************)
\* C2: in a burst from an empty tracker the n-th call succeeds exactly when
\* n <= base maxTokens x role multiplier, and a call that does not succeed is a
\* rate-limit rejection; for SEND_MESSAGE that is 10 calls for a user and 1000
\* for an admin.
C2_BurstAdmitsExactlyMax ==
  IsCheck =>
    /\ lastCall.threw \in {"none", "RateLimitExceeded"}
    /\ lastCall.threw = "none" <=> nCalls <= EffectiveMax(scenario.op, scenario.role)
    /\ (scenario.op = "SEND_MESSAGE" /\ scenario.role = "user")
         => (lastCall.threw = "none" <=> nCalls <= 10)
    /\ (scenario.op = "SEND_MESSAGE" /\ scenario.role = "admin")
         => (lastCall.threw = "none" <=> nCalls <= 1000)

\* the 1001st call of an admin's SEND_MESSAGE burst is rejected
C2_Witness ==
  /\ IsCheck
  /\ scenario.op = "SEND_MESSAGE" /\ scenario.role = "admin"
  /\ nCalls = 1001
  /\ lastCall.threw = "RateLimitExceeded"
  /\ Len(rateLimitTracker[TrackerKey("SEND_MESSAGE", BurstKey)]) = 1000

(***************************************************************************)
(* Properties of withRateLimit (specification SpecWrap)                    *)
(***************************************************************************)
Unresolved(s) == inv[s].pc # "idle" /\ inv[s].caller.lookup # "user"

\* C4: in every invocation the handler runs at most once, only after checkLimit
\* accepted in that invocation, and with the invocation's own arguments and the
\* user its lookup resolved; an invocation whose check was rejected never runs it.
C4_HandlerOnlyAfterAccept ==
  \A s \in Slots :
    /\ inv[s].handlerRuns <= 1
    /\ inv[s].pc = "handler" => inv[s].checked = "accepted"
    /\ inv[s].handlerRuns = 1 =>
         /\ inv[s].checked = "accepted"
         /\ inv[s].handlerArgs = inv[s].args
         /\ inv[s].caller.lookup = "user"
         /\ inv[s].handlerUser = inv[s].caller.user
    /\ inv[s].checked = "rejected" => (inv[s].handlerRuns = 0 /\ inv[s].pc = "done")

\* one invocation ran its handler while another, with other arguments, was
\* rejected by the limit
C4_Witness ==
  \E s, t \in Slots :
    /\ inv[s].handlerRuns = 1 /\ inv[s].checked = "accepted"
    /\ inv[t].checked = "rejected" /\ inv[t].error.kind = "RateLimitExceeded"
    /\ inv[t].args # inv[s].args

\* C5: an invocation whose lookup yields no user (null, or a rejection) stops
\* with the authentication error; its handler never runs, checkLimit is never
\* reached, and the step that ends it leaves the tracker as it was.
C5_FailsClosedOnIdentity ==
  [][\A s \in Slots :
       (Unresolved(s) /\ inv[s].pc = "auth" /\ inv'[s] # inv[s]) =>
         /\ inv'[s].pc = "done"
         /\ inv'[s].error \in {AuthenticationRequired, LookupError}
         /\ inv'[s].handlerRuns = 0
         /\ inv'[s].checked = "no"
         /\ rateLimitTracker' = rateLimitTracker]_vars

\* an unauthenticated invocation ended while the tracker holds timestamps of
\* other callers
C5_Witness ==
  \E s \in Slots :
    /\ Unresolved(s) /\ inv[s].pc = "done"
    /\ inv[s].caller.lookup = "null"
    /\ inv[s].error = AuthenticationRequired
    /\ rateLimitTracker # EmptyMap

\* C10: an invocation whose checkLimit threw ends with exactly the error
\* checkLimit threw: the TypeError of an unknown operation stays a TypeError,
\* a rate-limit rejection stays that rejection, and the handler does not run.
C10_CheckErrorsPropagate ==
  \A s \in Slots :
    inv[s].checked = "rejected" =>
      /\ inv[s].pc = "done"
      /\ inv[s].error = inv[s].checkThrew
      /\ inv[s].error.kind \in {"RateLimitExceeded", "TypeError"}
      /\ inv[s].error.kind = "TypeError" <=> inv[s].wrapper.operation \notin DOMAIN RATE_LIMITS
      /\ inv[s].handlerRuns = 0

\* a configuration error and a rate-limit rejection, each delivered
C10_Witness ==
  \E s, t \in Slots :
    /\ inv[s].pc = "done" /\ inv[s].error = ConfigTypeError
    /\ inv[t].pc = "done" /\ inv[t].error.kind = "RateLimitExceeded"
    /\ inv[t].error.resetIn = 3600

(***************************************************************************)
(* Properties of a replay (specification SpecReplay)                       *)
(***************************************************************************)
\* C9: replayed under the role of larger multiplier, every call admitted under
\* the smaller multiplier is admitted too, at least as many calls are admitted,
\* and strictly more once the run under the smaller multiplier rejected a call.
C9_LargerMultiplierAdmitsMore ==
  scenario.phase = "replay" =>
    /\ scenario.lastLo = "none" => scenario.lastHi = "none"
    /\ scenario.admittedHi >= scenario.admittedLo
    /\ scenario.rejectedLo => scenario.admittedHi > scenario.admittedLo

(***************************************************************************)
(* Properties over unbounded time (specification SpecLive)                 *)
(***************************************************************************)
\* key k stores a timestamp that has left the window of LiveOp
Expired(k) ==
  \E ts \in SeqRange(MapGet(rateLimitTracker, TrackerKey(LiveOp, k))) :
    ts <= now - RATE_LIMITS[LiveOp].period

\* C12: a key that stores timestamps older than the window is eventually rid of
\* them, and the entry of a key whose caller has left is eventually deleted, so
\* the map does not keep the keys no longer used.
C12_ExpiredEventuallyRemoved ==
  /\ \A k \in LiveKeys : Expired(k) ~> ~Expired(k)
  /\ (scenario.phase = "idle") ~> (TrackerKey(LiveOp, IdleKey) \notin DOMAIN rateLimitTracker)

\* the key no longer used still holds a full list of expired timestamps
C12_Witness ==
  /\ scenario.phase = "idle"
  /\ Expired(IdleKey)
  /\ Len(rateLimitTracker[TrackerKey(LiveOp, IdleKey)]) = 5
  /\ ~Expired("u1") /\ TrackerKey(LiveOp, "u1") \in DOMAIN rateLimitTracker

(***************************************************************************)
(* Properties of concurrent callers (specification SpecAtomic)             *)
(***************************************************************************)
\* C13: checkLimit decides on what the map holds at the instant it runs and
\* writes back in the same step: it counts exactly the timestamps the key holds
\* then, an accepted call adds exactly one to them, no accepted timestamp is
\* lost, and invocations in flight together never take more slots than the
\* limit leaves.
C13_CheckIsAtomic ==
  /\ \A k \in DOMAIN accepted :
       /\ Len(accepted[k]) <= EffectiveMax(AtomicOp, "user")
       /\ MapGet(rateLimitTracker, k) = accepted[k]
  /\ IsCheck =>
       /\ lastCall.count = lastCall.held
       /\ lastCall.threw = "none" => Len(rateLimitTracker[LastKey]) = lastCall.held + 1
       /\ lastCall.threw # "none" => Len(MapGet(rateLimitTracker, LastKey)) = lastCall.held

\* two invocations began while the key had one slot left; one took it, the
\* other was rejected
C13_Witness ==
  /\ inv[1].pc = "done" /\ inv[2].pc = "done"
  /\ inv[1].key = inv[2].key
  /\ Len(inv[1].seen) = 2 /\ inv[2].seen = inv[1].seen
  /\ inv[1].threw = "none" /\ inv[2].threw = "RateLimitExceeded"
  /\ Len(rateLimitTracker[TrackerKey(AtomicOp, inv[1].key)]) = 3

(***************************************************************************)
(* Properties of several instances (specification SpecMulti)               *)
(***************************************************************************)
\* C14: the calls one instance admitted within one window never number more
\* than effectiveMax (while the instances together may admit more: C14_Witness).
C14_EachInstanceRespectsLimit ==
  \A p \in Instances : Len(scenario.admitted[p]) <= EffectiveMax(scenario.op, "user")

\* the instances together admitted more calls of one key within a window than
\* effectiveMax, each of them no more than effectiveMax
C14_Witness ==
  /\ Len(MapGet(accepted, TrackerKey(scenario.op, MultiKey))) > EffectiveMax(scenario.op, "user")
  /\ \A p \in Instances :
       /\ Len(scenario.admitted[p]) <= EffectiveMax(scenario.op, "user")
       /\ Len(scenario.admitted[p]) > 0

(***************************************************************************)
(* Properties of several pairs (specification SpecPairs)                   *)
(***************************************************************************)
\* C15: a call of the watched pair ends the same way (accepted, or rejected)
\* whether or not calls and resets of other pairs were made before it.
C15_OtherPairsChangeNothing == scenario.lastFull = scenario.lastAlone

\* C16: reset(op, key) leaves the map without an entry for (op, key), whatever
\* it held, and with every other entry as it was.
C16_ResetClearsExactlyOneEntry ==
  [][(lastCall'.kind = "reset" /\ nCalls' = nCalls + 1) =>
       LET k == TrackerKey(lastCall'.op, lastCall'.key) IN
       /\ k \notin DOMAIN rateLimitTracker'
       /\ DOMAIN rateLimitTracker' = DOMAIN rateLimitTracker \ {k}
       /\ \A x \in DOMAIN rateLimitTracker' : rateLimitTracker'[x] = rateLimitTracker[x]]_vars

\* a full entry was reset while the two other pairs hold timestamps
C16_Witness ==
  /\ lastCall.kind = "reset"
  /\ lastCall.held = 3
  /\ LastKey \notin DOMAIN rateLimitTracker
  /\ DOMAIN rateLimitTracker = Pairs \ {LastKey}

RecentAnonymous ==
  SelectSeq(messages, LAMBDA m : m.authorId = Undefined /\ m.createdAt > now - MINUTE)

\* C19: a send without an authenticated caller is checked under the key
\* 'anonymous', at most the SEND_MESSAGE limit of such sends insert a message
\* within 60 seconds, and a rejected send inserts nothing.
C19_AnonymousSendsLimited ==
  /\ (inv.pc \in {"insert", "done"} /\ inv.caller.lookup # "user") => inv.key = "anonymous"
  /\ Len(RecentAnonymous) <= RATE_LIMITS["SEND_MESSAGE"].maxTokens
  /\ (inv.pc = "done" /\ inv.error.kind = "RateLimitExceeded") => ~inv.inserted

(***************************************************************************)
(* Properties of withRateLimit without options (specification SpecRole)    *)
(***************************************************************************)
\* the multiplier the documentation gives a user: 100 for an admin, 5 for a
\* user whose role is 'premium', 1 otherwise
DocumentedMultiplier(user) ==
  IF isAdmin(user) THEN 100 ELSE IF user.role = "premium" THEN 5 ELSE 1

\* the user behind the default key, user._id
UserOfKey(key) == (CHOOSE c \in RoleCallers : c.user._id = key).user

\* C20: a wrapped mutation without options admits a call exactly when the
\* caller's key holds fewer timestamps in the window than base maxTokens x the
\* multiplier of the caller's role: 5x for 'premium', 100x for an admin, 1x
\* for a standard user.
C20_RoleDetectedFromUser ==
  IsCheck =>
    (lastCall.threw = "none" <=>
       lastCall.count < RATE_LIMITS[lastCall.op].maxTokens
                          * DocumentedMultiplier(UserOfKey(lastCall.key)))

\* C27: when the wrapped handler runs, the timestamp of its invocation is
\* already recorded for the key, and a handler that throws removes nothing:
\* the map holds every accepted timestamp of the window, those of failed
\* invocations included.
C27_FailedHandlerStillCounts ==
  /\ \A s \in Slots :
       (inv[s].pc = "handler" \/ inv[s].handlerRuns > 0) =>
         /\ inv[s].checked = "accepted"
         /\ inv[s].stored
         /\ \E i \in DOMAIN MapGet(rateLimitTracker,
                                   TrackerKey(inv[s].wrapper.operation,
                                              KeyOf(inv[s].wrapper, inv[s].user))) :
              rateLimitTracker[TrackerKey(inv[s].wrapper.operation,
                                          KeyOf(inv[s].wrapper, inv[s].user))][i] = now
  /\ \A k \in DOMAIN accepted : MapGet(rateLimitTracker, k) = accepted[k]

\* an invocation whose handler threw, and a later invocation of the same caller
\* rejected with 3 timestamps in the window
C27_Witness ==
  \E s, t \in Slots :
    /\ s # t
    /\ inv[s].pc = "done" /\ inv[s].error = HandlerError
    /\ inv[t].pc = "done" /\ inv[t].checked = "rejected"
    /\ inv[t].caller = inv[s].caller
    /\ lastCall.threw = "RateLimitExceeded" /\ lastCall.count = 3
    /\ lastCall.key = inv[s].user._id

(***************************************************************************)
(* Properties of the sweep (specification SpecSweep)                       *)
(***************************************************************************)

\* C26: each call has the same outcome (accepted or rejected) in the run in
\* which the sweep fires after accepted calls as in the run in which it never
\* fires.
C26_SweepKeepsOutcomes ==
  lastCall.kind = "checkLimit" => lastCall.threw = scenario.lastPlain

(***************************************************************************)
(* Properties of the map's entries (specification SpecEntries)             *)
(***************************************************************************)

\* C28: every entry of the map holds a non-empty list of timestamps in
\* non-decreasing order, no longer than base maxTokens x multiplier of the role
\* of the most recent accepted call of its key (multiplier 1 for a role that is
\* no key of ROLE_MULTIPLIERS).
C28_EntriesSortedAndBounded ==
  \A k \in DOMAIN rateLimitTracker :
    /\ Len(rateLimitTracker[k]) >= 1
    /\ \A i \in 1..(Len(rateLimitTracker[k]) - 1) :
         rateLimitTracker[k][i] <= rateLimitTracker[k][i + 1]
    /\ k \in DOMAIN scenario
    /\ Len(rateLimitTracker[k]) <=
         RATE_LIMITS[k[1]].maxTokens * (IF scenario[k] \in DOMAIN ROLE_MULTIPLIERS
                                          THEN ROLE_MULTIPLIERS[scenario[k]]
                                          ELSE 1)

(***************************************************************************)
(* Properties of the mock (specification SpecMock)                         *)
(***************************************************************************)

\* C23: no checkLimit call of the mock throws, and after n calls (with no reset
\* or clear) getChecks() holds exactly n records, the i-th with the operation
\* and key of the i-th call and with its role, 'user' when the role was
\* omitted.
C23_MockLogsEveryCall ==
  /\ lastCall.kind = "checkLimit" => lastCall.threw = "none"
  /\ ~scenario.cleared =>
       /\ Len(getChecks(scenario.checks)) = Len(scenario.calls)
       /\ \A i \in 1..Len(scenario.calls) :
            /\ getChecks(scenario.checks)[i].operation = scenario.calls[i].operation
            /\ getChecks(scenario.checks)[i].key = scenario.calls[i].key
            /\ getChecks(scenario.checks)[i].role =
                 (IF scenario.calls[i].roleArg = Undefined
                    THEN "user" ELSE scenario.calls[i].roleArg)

\* three calls logged, one without role, one for an operation outside the table
C23_Witness ==
  /\ ~scenario.cleared
  /\ Len(scenario.checks) = 3
  /\ \E i \in 1..3 : scenario.calls[i].roleArg = Undefined /\ scenario.checks[i].role = "user"
  /\ \E i \in 1..3 : scenario.checks[i].operation = "NO_SUCH_LIMIT"
  /\ \E i \in 1..3 : scenario.checks[i].role = "guest"

(***************************************************************************)
(* Properties of compose (specification SpecCompose)                       *)
(***************************************************************************)

\* C29: the original handler of a composed function runs only after every
\* decorator has admitted the invocation, and receives the resolved user as
\* its third argument; when a decorator rejects, the handler does not run.
C29_ComposedHandlerGetsUser ==
  /\ (inv.pc = "handler" \/ inv.handlerRuns > 0) => inv.admitted = Len(inv.chain)
  /\ inv.handlerRuns > 0 => inv.handlerUser = inv.caller.user
  /\ (inv.pc = "done" /\ inv.admitted < Len(inv.chain)) => inv.handlerRuns = 0

(***************************************************************************)
(* Properties of the custom wrappers (specification SpecCustom)            *)
(***************************************************************************)

\* C21: whatever is thrown inside a function built with a custom wrapper, by
\* the auth injection or by the handler, reaches the caller as a ConvexError:
\* a ConvexError unchanged, an Error as a ConvexError with the same message,
\* any other value as a ConvexError with the generic message.
C21_EveryErrorIsConvexError ==
  (inv.pc = "done" /\ inv.thrown # NoThrow) =>
    /\ inv.error.class = "ConvexError"
    /\ inv.thrown.class = "ConvexError" => inv.error = inv.thrown
    /\ inv.thrown.class = "Error" => inv.error.message = inv.thrown.message
    /\ inv.thrown.class = "other" => inv.error.message = "An unexpected error occurred"

\* C22: the handler of an auth function runs only for an authenticated caller,
\* with ctx.user that user and ctx.userId its _id; the handler of an admin
\* function runs only when in addition the user's email is in ADMIN_EMAILS or
\* its role is 'admin'; for every other caller the handler does not run and
\* the call fails.
C22_HandlerOnlyForAuthorized ==
  /\ (inv.wrapper \in {"auth", "admin"} /\ (inv.pc = "handler" \/ inv.handlerRuns > 0)) =>
       /\ inv.caller.lookup = "user"
       /\ inv.ctxUser = inv.caller.user
       /\ inv.ctxUserId = inv.caller.user._id
       /\ inv.wrapper = "admin" =>
            (inv.caller.user.email \in ADMIN_EMAILS \/ inv.caller.user.role = "admin")
  /\ (/\ inv.pc = "done"
      /\ \/ inv.wrapper \in {"auth", "admin"} /\ inv.caller.lookup # "user"
         \/ /\ inv.wrapper = "admin"
            /\ inv.caller.user.email \notin ADMIN_EMAILS
            /\ inv.caller.user.role # "admin") =>
       /\ inv.handlerRuns = 0
       /\ inv.error # NoThrow

\* an admin function refused to an authenticated user who is no admin, after
\* one that ran for an admin by role
C22_Witness ==
  /\ inv.pc = "done" /\ inv.wrapper = "admin"
  /\ inv.caller.user = Alice
  /\ inv.handlerRuns = 0
  /\ inv.error = Thrown("ConvexError", "Admin access required")
  /\ nInv = 3

(***************************************************************************)
(* Properties of the messages table (specification SpecMessages)           *)
(***************************************************************************)

\* the last call was allowed to delete: remove by the authenticated author of
\* an existing message, or deleteAny of an existing message by an admin
DeleteAllowed(call, table) ==
  /\ call.caller.lookup = "user"
  /\ DbGet(table, call.id) # <<>>
  /\ \/ /\ call.fn = "remove"
        /\ DbGet(table, call.id)[1].authorId = call.caller.user._id
     \/ /\ call.fn = "deleteAny"
        /\ \/ call.caller.user.email \in ADMIN_EMAILS
           \/ call.caller.user.role = "admin"

\* C30: a step removes a message only when it is a remove call by the
\* authenticated author of that message or a deleteAny call by an admin, and
\* then exactly that message; every other remove or deleteAny call fails and
\* leaves the table as it was.
C30_OnlyAuthorOrAdminDeletes ==
  [][/\ (\E doc \in SeqRange(messages) : doc \notin SeqRange(messages')) =>
          (scenario'.n = scenario.n + 1 /\ DeleteAllowed(scenario', messages))
     /\ scenario'.n = scenario.n + 1 =>
          IF DeleteAllowed(scenario', messages)
            THEN /\ scenario'.error = NoError
                 /\ messages' = SelectSeq(messages, LAMBDA doc : doc._id # scenario'.id)
            ELSE /\ scenario'.error # NoError
                 /\ messages' = messages]_vars

\* the author has just removed an own message; another message stays stored
C30_Witness ==
  /\ scenario.fn = "remove"
  /\ scenario.error = NoError
  /\ scenario.caller.user = Alice
  /\ DbGet(messages, scenario.id) = <<>>
  /\ Len(messages) = 1

====
